---- MODULE Spec2Model ----
(***************************************************************************)
(* malloc_align() / free_align() of libstrongswan's utils.c, layered on a  *)
(* backing malloc()/free().  Memory is a byte array, pointers are the      *)
(* integer addresses of its cells, size_t is an unsigned integer of        *)
(* SizeBits bits and u_int8_t one of 8 bits.                                *)
(***************************************************************************)
EXTENDS Integers, FiniteSets, Sequences, TLC

\* ------------------------------------------------------------- bounds
SizeBits == 16
MaxAddr == 4
MaxAlign == 2
MaxSize == 0
MaxAllocs == 1
MaxFnBase == 256

\* ---------------------------------------------------- types of the code
UINT8_MAX == 255
NULL == 0
Undef == -1

SIZE_MOD == 2 ^ SizeBits
SIZE_MAX == SIZE_MOD - 1
Byte == 0 .. UINT8_MAX
\* where the backing allocator places its blocks, and the bytes of memory
\* the model keeps: pad bytes from a block's base on stay inside Cells
Addr == 1 .. MaxAddr
Cells == 1 .. (MaxAddr + MaxAlign)

\* the inputs the callers draw from: every alignment up to MaxAlign, the
\* small sizes, and a size at which align + 1 + size leaves size_t
Aligns == 0 .. MaxAlign
Sizes == (0 .. MaxSize) \cup {SIZE_MAX - 1}
FnSizes == Sizes \cup {SIZE_MAX}
OverwriteVals == (0 .. (MaxAlign + 1)) \cup {UINT8_MAX}
\* the values an indeterminate byte is read as: every value up to the
\* largest address, and one above them all (any larger value sends the
\* scan of free_align below the first cell just the same)
AnyByte == (0 .. (MaxAddr + MaxAlign)) \cup {UINT8_MAX}

VARIABLES mem, blocks, live, budget, tampered, last

vars == <<mem, blocks, live, budget, tampered, last>>

\* ------------------------------------------------------ backing allocator
\* the usable bytes of a backing block
Bytes(b) == b.base .. (b.base + b.len - 1)

\* the addresses a block keeps others away from: malloc(0), when it
\* succeeds, returns a pointer distinct from every other live one
Extent(b) == b.base .. (b.base + (IF b.len = 0 THEN 0 ELSE b.len - 1))

Load(m, a) == IF a \in DOMAIN m THEN m[a] ELSE Undef

\* what malloc(n) may answer: NULL, or, while the heap still grants blocks,
\* the base of a block of n bytes that overlaps no outstanding block
Malloc(n) ==
    {NULL} \cup
    {p \in Addr :
        LET b == [base |-> p, len |-> n]
        IN  /\ budget > 0
            /\ Extent(b) \subseteq Addr
            /\ \A o \in blocks : Extent(o) \cap Extent(b) = {}}

\* blocks after free(p); a p that is no outstanding block's base releases
\* nothing
FreeBlocks(p) == {b \in blocks : b.base # p}

Released(p) == UNION {Bytes(b) : b \in {o \in blocks : o.base = p}}

\* ------------------------------------------------------------ malloc_align
\* variant: an alignment of 0 raised to the word size instead of 1
EffAlign_word(align) == IF align = 0 THEN 8 ELSE align

EffAlign(align) == IF align = 0 THEN 1 ELSE align

ReqLen(size, align) == (EffAlign(align) + 1 + size) % SIZE_MOD

\* variant: the remainder itself taken as the padding length
PadOf_remainder(ptr, align) == (ptr % align) % (UINT8_MAX + 1)

\* variant: the usual round-up, which pads an aligned pointer by nothing
PadOf_roundup(ptr, align) ==
    ((align - (ptr % align)) % align) % (UINT8_MAX + 1)

\* pad = align - ((uintptr_t)ptr % align), stored in a u_int8_t
PadOf(ptr, align) == (align - (ptr % align)) % (UINT8_MAX + 1)

MemSet(m, ptr, c, n) ==
    [a \in DOMAIN m |-> IF a \in ptr .. (ptr + n - 1) THEN c ELSE m[a]]

\* variant: the answer of malloc() is never tested
MallocFailed_never(ptr) == FALSE

MallocFailed(ptr) == ptr = NULL

\* the call malloc_align(size, align) when malloc() answers ptr:
\* what it asks for, writes and returns
MallocAlignCall(size, align, ptr) ==
    IF MallocFailed(ptr)
    THEN [op |-> "malloc_align", size |-> size, align |-> align,
          req |-> ReqLen(size, align), base |-> ptr, arg |-> NULL,
          ret |-> NULL, pad |-> 0, writes |-> {}, reads |-> {}, steps |-> 0,
          diag |-> FALSE, fault |-> FALSE, intact |-> TRUE, freed |-> <<>>, own |-> {}]
    ELSE LET pad == PadOf(ptr, EffAlign(align))
         IN  [op |-> "malloc_align", size |-> size, align |-> align,
              req |-> ReqLen(size, align), base |-> ptr, arg |-> NULL,
              ret |-> ptr + pad, pad |-> pad,
              writes |-> ptr .. (ptr + pad - 1), reads |-> {}, steps |-> 0,
              diag |-> FALSE, fault |-> FALSE, intact |-> TRUE, freed |-> <<>>,
              own |-> ptr .. (ptr + ReqLen(size, align) - 1)]

\* memory after the call r: the new block's bytes are indeterminate, then
\* memset(ptr, pad, pad) fills pad bytes from its base on
MemAfter(r) ==
    LET fresh == [a \in Cells |-> IF a \in r.own THEN Undef ELSE mem[a]]
    IN  IF r.writes = {} THEN mem ELSE MemSet(fresh, r.base, r.pad, r.pad)

BlocksAfter(r) ==
    IF r.base = NULL THEN blocks
    ELSE blocks \cup {[base |-> r.base, len |-> r.req]}

\* the allocations the callers hold after the call r
LiveAfter(r) ==
    IF r.ret = NULL THEN live
    ELSE live \cup {[ptr |-> r.ret, base |-> r.base, pad |-> r.pad,
                     len |-> r.req, intact |-> TRUE]}

\* a call that faulted has ended the process
Running == ~last.fault

malloc_align(size, align) ==
    /\ Running
    /\ \E ptr \in Malloc(ReqLen(size, align)) :
         LET r == MallocAlignCall(size, align, ptr)
         IN  /\ last' = r
             /\ mem' = MemAfter(r)
             /\ blocks' = BlocksAfter(r)
             /\ live' = LiveAfter(r)
             /\ budget' = IF ptr = NULL THEN budget ELSE budget - 1
             /\ UNCHANGED tampered

\* -------------------------------------------------------------- free_align
\* pad = *pos with pos = ptr - 1; an indeterminate byte reads as any value
PadRead(m, ptr) ==
    IF Load(m, ptr - 1) = Undef THEN AnyByte ELSE {Load(m, ptr - 1)}

\* the loop of free_align from pos on: the set of ways it can end.  Below
\* the first cell nothing is known of memory: the read faults, or the bytes
\* there differ from pad somewhere, or they all equal it.
\* variant: the loop runs one byte further down
ScanCond_further(pos, ptr, pad) == pos >= ptr - pad - 1

ScanCond(pos, ptr, pad) == pos >= ptr - pad

RECURSIVE Scan(_, _, _, _, _, _)
Scan(m, ptr, pad, pos, reads, steps) ==
    IF ScanCond(pos, ptr, pad)
    THEN IF pos < 1
         THEN {[ok |-> FALSE, fault |-> TRUE, reads |-> reads \cup {pos},
                steps |-> steps + 1],
               [ok |-> FALSE, fault |-> FALSE, reads |-> reads \cup {pos},
                steps |-> steps + 1],
               [ok |-> TRUE, fault |-> FALSE,
                reads |-> reads \cup ((ptr - pad) .. pos),
                steps |-> steps + (pos - (ptr - pad)) + 1]}
         ELSE LET v == IF pos = ptr - 1 THEN pad ELSE Load(m, pos)
              IN  (IF v = Undef \/ v # pad
                   THEN {[ok |-> FALSE, fault |-> FALSE,
                          reads |-> reads \cup {pos}, steps |-> steps + 1]}
                   ELSE {})
                  \cup
                  (IF v = Undef \/ v = pad
                   THEN Scan(m, ptr, pad, pos - 1, reads \cup {pos},
                             steps + 1)
                   ELSE {})
    ELSE {[ok |-> TRUE, fault |-> FALSE, reads |-> reads, steps |-> steps]}

FreeAlignCalls(m, rec) ==
    UNION {
        {[op |-> "free_align", size |-> 0, align |-> 0, req |-> 0,
          base |-> rec.base, arg |-> rec.ptr, ret |-> NULL, pad |-> pad,
          writes |-> {}, reads |-> {rec.ptr - 1} \cup o.reads,
          steps |-> o.steps, diag |-> ~o.ok /\ ~o.fault, fault |-> o.fault,
          intact |-> rec.intact,
          freed |-> IF o.ok THEN <<rec.ptr - pad>> ELSE <<>>,
          own |-> rec.base .. (rec.base + rec.len - 1)]
         : o \in Scan(m, rec.ptr, pad, rec.ptr - 1, {}, 0)}
        : pad \in PadRead(m, rec.ptr)}

free_align(rec) ==
    /\ Running
    /\ rec \in live
    /\ \E r \in FreeAlignCalls(mem, rec) :
         /\ last' = r
         /\ live' = live \ {rec}
         /\ IF r.freed = <<>>
            THEN UNCHANGED <<mem, blocks>>
            ELSE /\ blocks' = FreeBlocks(r.freed[1])
                 /\ mem' = [a \in Cells |->
                              IF a \in Released(r.freed[1]) THEN Undef
                              ELSE mem[a]]
         /\ UNCHANGED <<budget, tampered>>

\* ------------------------------------------------------------- the caller
\* the holder of a live allocation overwrites a single byte of its padding
\* region [ptr - pad, ptr - 1] with a value different from pad
Overwrite(rec, pos, v) ==
    /\ Running
    /\ rec \in live
    /\ rec.intact
    /\ pos \in (rec.ptr - rec.pad) .. (rec.ptr - 1)
    /\ pos \in Cells
    /\ v # rec.pad
    /\ mem' = [mem EXCEPT ![pos] = v]
    /\ live' = (live \ {rec}) \cup {[rec EXCEPT !.intact = FALSE]}
    /\ last' = [op |-> "overwrite", size |-> 0, align |-> 0, req |-> 0,
                base |-> rec.base, arg |-> rec.ptr, ret |-> NULL,
                pad |-> rec.pad, writes |-> {pos}, reads |-> {}, steps |-> 0,
                diag |-> FALSE, fault |-> FALSE, intact |-> TRUE, freed |-> <<>>,
                own |-> rec.base .. (rec.base + rec.len - 1)]
    /\ tampered' = TRUE
    /\ UNCHANGED <<blocks, budget>>

NoCall ==
    [op |-> "none", size |-> 0, align |-> 0, req |-> 0, base |-> NULL,
     arg |-> NULL, ret |-> NULL, pad |-> 0, writes |-> {}, reads |-> {},
     steps |-> 0, diag |-> FALSE, fault |-> FALSE, intact |-> TRUE, freed |-> <<>>, own |-> {}]

Init ==
    /\ mem = [a \in Cells |-> Undef]
    /\ blocks = {}
    /\ live = {}
    /\ budget = MaxAllocs
    /\ tampered = FALSE
    /\ last = NoCall

Next ==
    \/ \E size \in Sizes, align \in Aligns : malloc_align(size, align)
    \/ \E rec \in live : free_align(rec)
    \/ \E rec \in live, pos \in Cells, v \in OverwriteVals :
          Overwrite(rec, pos, v)

Spec == Init /\ [][Next]_vars

\* a heap that grants one block more, so that two allocations are live at
\* once
InitPair ==
    /\ mem = [a \in Cells |-> Undef]
    /\ blocks = {}
    /\ live = {}
    /\ budget = MaxAllocs + 1
    /\ tampered = FALSE
    /\ last = NoCall

SpecPair == InitPair /\ [][Next]_vars

\* malloc_align alone, for every alignment of u_int8_t against every answer
\* of malloc() up to MaxFnBase
NextFn ==
    /\ last = NoCall
    /\ \E size \in FnSizes, align \in Byte, ptr \in 0 .. MaxFnBase :
          last' = MallocAlignCall(size, align, ptr)
    /\ UNCHANGED <<mem, blocks, live, budget, tampered>>

SpecFn == Init /\ [][NextFn]_vars

\* ------------------------------------------------------------------ claims
Succeeded == last.op = "malloc_align" /\ last.ret # NULL

\* C1: for every align in 1..255, every size and every address malloc() may
\* answer, a successful malloc_align returns a pointer that is a multiple
\* of align
C1_Aligned ==
    (Succeeded /\ last.align \in 1 .. UINT8_MAX)
        => last.ret % last.align = 0

\* a successful call with the alignment 255, no power of two, on a base
\* that is not aligned to it
C1_Witness ==
    /\ Succeeded
    /\ last.align = UINT8_MAX
    /\ last.base % UINT8_MAX # 0
    /\ last.ret % UINT8_MAX = 0

\* C2 (as claimed): while no caller has modified a padding byte, every
\* free_align reports no corruption and passes to free() exactly the
\* address malloc() returned for that allocation, and the outstanding
\* backing blocks are as many as the unreleased aligned allocations
C2_Claim ==
    ~tampered =>
        /\ last.op = "free_align" =>
              /\ ~last.diag
              /\ ~last.fault
              /\ last.freed = <<last.base>>
        /\ Cardinality(blocks) = Cardinality(live)

\* C3 (as claimed): free_align on an allocation one of whose padding bytes
\* was overwritten with a value different from pad emits the diagnostic and
\* does not call free()
C3_Claim ==
    (last.op = "free_align" /\ ~last.intact)
        => (last.diag /\ last.freed = <<>>)

\* C4: on success pad = align - (base mod align) lies in [1, align], fits a
\* byte, and equals align (not 0) when the base is already aligned, the
\* pointer returned being base + align then
C4_PadRange ==
    Succeeded =>
        LET a == EffAlign(last.align)
        IN  /\ last.pad = a - (last.base % a)
            /\ last.pad >= 1
            /\ last.pad <= a
            /\ last.pad <= UINT8_MAX
            /\ last.ret = last.base + last.pad
            /\ (last.base % a = 0) => (last.pad = a /\ last.ret = last.base + a)

\* align = 8 against an 8-aligned base: pad = 8 and the pointer is base + 8
C4_Witness ==
    /\ Succeeded
    /\ last.align = 8
    /\ last.base % 8 = 0
    /\ last.pad = 8
    /\ last.ret = last.base + 8

\* C5 (as claimed): for every live allocation whose holder has not
\* overwritten it, every byte of [base, base + pad) holds pad and the
\* pointer is base + pad, whatever calls were made on other allocations
C5_Claim ==
    \A rec \in live :
        rec.intact =>
            /\ rec.ptr = rec.base + rec.pad
            /\ \A a \in rec.base .. (rec.base + rec.pad - 1) :
                  Load(mem, a) = rec.pad

\* C6: when malloc() fails, malloc_align returns NULL, writes no memory and
\* leaves the outstanding backing blocks (and the callers' allocations)
\* as they were
C6_FailurePropagated ==
    [][(last'.op = "malloc_align" /\ last'.base = NULL)
          => /\ last'.ret = NULL
             /\ last'.writes = {}
             /\ mem' = mem
             /\ blocks' = blocks
             /\ live' = live]_vars

\* a failed call made while a backing block is outstanding
C6_Witness ==
    /\ last.op = "malloc_align"
    /\ last.base = NULL
    /\ last.ret = NULL
    /\ blocks # {}

\* C7: malloc_align(size, 0) does what malloc_align(size, 1) does on the
\* same answer of malloc(): it asks for size + 2 bytes (in size_t), writes
\* one byte of value 1 at the base, returns base + 1, and leaves the memory,
\* the backing blocks and the callers' allocations, which are all that a
\* later free_align reads, as the call with 1 leaves them
C7_ZeroIsOne ==
    [][(last'.op = "malloc_align" /\ last'.align = 0)
          => LET one == MallocAlignCall(last'.size, 1, last'.base)
             IN  /\ last'.req = (last'.size + 2) % SIZE_MOD
                 /\ [last' EXCEPT !.align = 1] = one
                 /\ mem' = MemAfter(one)
                 /\ blocks' = BlocksAfter(one)
                 /\ live' = LiveAfter(one)
                 /\ last'.base # NULL =>
                       /\ last'.ret = last'.base + 1
                       /\ last'.writes = {last'.base}
                       /\ mem'[last'.base] = 1]_vars

\* a successful call with the alignment 0
C7_Witness ==
    /\ Succeeded
    /\ last.align = 0
    /\ last.ret = last.base + 1
    /\ mem[last.base] = 1

\* C8 (as claimed): a successful malloc_align asks malloc() for exactly
\* align + 1 + size bytes, and both the padding region and the size bytes
\* from the returned pointer on lie inside the block it asked for
C8_Claim ==
    Succeeded =>
        /\ last.req = EffAlign(last.align) + 1 + last.size
        /\ last.writes \subseteq last.own
        /\ last.ret + last.size <= last.base + last.req

\* C9: free_align on a pointer whose byte at pointer - 1 reads 0 makes no
\* verification step, emits no diagnostic and passes the pointer itself to
\* free(), which is not the address malloc() returned for the allocation
C9_ZeroPadGap ==
    (last.op = "free_align" /\ last.pad = 0)
        => /\ last.steps = 0
           /\ last.reads = {last.arg - 1}
           /\ ~last.diag
           /\ ~last.fault
           /\ last.freed = <<last.arg>>
           /\ last.arg # last.base

\* free_align after the caller overwrote the byte at pointer - 1 with 0
C9_Witness ==
    /\ last.op = "free_align"
    /\ ~last.intact
    /\ last.pad = 0
    /\ last.freed = <<last.arg>>
    /\ blocks # {}

\* C10 (as claimed): while no caller has modified a padding byte, each
\* call reads and writes only bytes of the backing block of its own
\* allocation, and a free_align reports no corruption and releases the
\* base malloc() returned
C10_Claim ==
    (~tampered /\ last.op \in {"malloc_align", "free_align"})
        => /\ (last.reads \cup last.writes) \subseteq last.own
           /\ last.op = "free_align" =>
                 /\ ~last.diag
                 /\ ~last.fault
                 /\ last.freed = <<last.base>>

====
